---- MODULE Spec2Model ----
(***************************************************************************)
(* Model of helpers/helper_functions.py: find_fft (a centred, normalised   *)
(* decibel spectrum) and plot_timeseries (a loop of render calls).         *)
(*                                                                         *)
(* Arithmetic is exact.  A complex number of the length-n transform is an  *)
(* element of Z[w], w = exp(-2*pi*i/n), held as its coordinates in the     *)
(* basis 1, w, ..., w^(phi(n)-1) (the remainder modulo the n-th cyclotomic *)
(* polynomial), so two bins are equal iff their coordinates are equal.     *)
(* A magnitude is held as its square; a decibel value 10*log10(sqrt(sq)/   *)
(* den) is held as the pair (sq, den) or as one of nan, -inf, +inf.        *)
(***************************************************************************)
EXTENDS Integers, Sequences, FiniteSets, TLC

\* Bounds of the model.
MaxLen == 4          \* longest sample sequence
MaxAmp == 1          \* samples are integers in -MaxAmp..MaxAmp
MaxWindow == 4       \* largest n_window
MaxScale == 2        \* largest scaling constant c
MaxSeries == 3       \* largest number of series and of style tags

VARIABLES pc, exc, signal, n_window, spectrum,
          x, line, line_omitted, i, rendered, shown

fftvars == <<signal, n_window, spectrum>>
plotvars == <<x, line, line_omitted, i, rendered, shown>>
vars == <<pc, exc, signal, n_window, spectrum, x, line, line_omitted, i, rendered, shown>>

----------------------------------------------------------------------------
\* Sequences of integers and polynomials (coefficient of x^(j-1) at index j).

RECURSIVE Sigma(_, _)
Sigma(f, m) == IF m = 0 THEN 0 ELSE f[m] + Sigma(f, m - 1)

RECURSIVE Power(_, _)
Power(b, e) == IF e = 0 THEN 1 ELSE b * Power(b, e - 1)

Zeros(m) == [j \in 1..m |-> 0]

IsZero(v) == \A j \in 1..Len(v) : v[j] = 0

Scale(c, v) == [j \in 1..Len(v) |-> c * v[j]]

\* One step of long division of p by the monic polynomial d.
DivStep(p, d) ==
    LET a == p[Len(p)]
        sh == Len(p) - Len(d)
    IN [j \in 1..(Len(p) - 1) |-> p[j] - (IF j > sh THEN a * d[j - sh] ELSE 0)]

RECURSIVE PolyRem(_, _)
PolyRem(p, d) == IF Len(p) < Len(d) THEN p ELSE PolyRem(DivStep(p, d), d)

RECURSIVE PolyQuot(_, _)
PolyQuot(p, d) ==
    IF Len(p) < Len(d) THEN <<>> ELSE Append(PolyQuot(DivStep(p, d), d), p[Len(p)])

\* x^n - 1
XnMinus1(n) == [j \in 1..(n + 1) |-> IF j = 1 THEN -1 ELSE IF j = n + 1 THEN 1 ELSE 0]

\* The n-th cyclotomic polynomial: x^n - 1 divided by those of the proper divisors of n.
RECURSIVE Cyclotomic(_)
RECURSIVE DivideOut(_, _, _)
DivideOut(p, n, d) ==
    IF d >= n THEN p
    ELSE IF n % d = 0 THEN DivideOut(PolyQuot(p, Cyclotomic(d)), n, d + 1)
    ELSE DivideOut(p, n, d + 1)
Cyclotomic(n) == DivideOut(XnMinus1(n), n, 1)

Phi == [n \in 1..MaxWindow |-> Cyclotomic(n)]

\* The element sum_j c[j] * w^(j-1) of Z[w], in coordinates.
Reduce(c, n) == PolyRem(c, Phi[n])

\* Coordinates padded back to n coefficients.
Expand(z, n) == [j \in 1..n |-> IF j <= Len(z) THEN z[j] ELSE 0]

\* Product of two elements of Z[w].
CycMul(a, b, n) ==
    LET ea == Expand(a, n)
        eb == Expand(b, n)
        c == [j \in 1..n |->
                Sigma([m \in 1..n |-> ea[m] * eb[((j - m + n) % n) + 1]], n)]
    IN Reduce(c, n)

\* Complex conjugate: w^j goes to w^(n-j).
Conj(a, n) ==
    LET ea == Expand(a, n)
    IN Reduce([j \in 1..n |-> ea[((n - (j - 1)) % n) + 1]], n)

\* The integer q as an element of Z[w].
Const(q, n) == Reduce(Expand(<<q>>, n), n)

----------------------------------------------------------------------------
\* numpy.fft.fft(a, n): a is cut or zero-padded to n samples, then
\* X[k] = sum_m a[m] * w^(k*m), w = exp(-2*pi*i/n).  n < 1 raises ValueError.

\* Variant: a longer input keeps its last n samples.
Resize_Tail(a, n) ==
    [m \in 1..n |-> IF Len(a) > n THEN a[Len(a) - n + m]
                    ELSE IF m <= Len(a) THEN a[m] ELSE 0]

Resize(a, n) == [m \in 1..n |-> IF m <= Len(a) THEN a[m] ELSE 0]

DftBin(a, n, k) ==
    Reduce([j \in 1..n |->
              Sigma([m \in 1..n |-> IF (k * (m - 1)) % n = j - 1 THEN a[m] ELSE 0], n)], n)

Dft(a, n) == [k \in 1..n |-> DftBin(a, n, k - 1)]

\* Variant: the transform takes its length from the input.
fft_NoResize(a, n) ==
    IF n < 1 THEN [exc |-> "ValueError", value |-> <<>>]
    ELSE [exc |-> "none", value |-> Dft(a, Len(a))]

\* Variant: only a negative length is rejected.
fft_ZeroAllowed(a, n) ==
    IF n < 0 THEN [exc |-> "ValueError", value |-> <<>>]
    ELSE [exc |-> "none", value |-> Dft(Resize(a, n), n)]

fft(a, n) ==
    IF n < 1 THEN [exc |-> "ValueError", value |-> <<>>]
    ELSE [exc |-> "none", value |-> Dft(Resize(a, n), n)]

\* Variant: the array rolled left by n // 2 (ifftshift).
fftshift_Inverse(X) ==
    LET n == Len(X)
    IN [k \in 1..n |-> X[((k - 1 + (n \div 2)) % n) + 1]]

\* Variant: no shift.
fftshift_None(X) == X

\* numpy.fft.fftshift: the array rolled right by n // 2.
fftshift(X) ==
    LET n == Len(X)
    IN [k \in 1..n |-> X[((k - 1 - (n \div 2) + n) % n) + 1]]

\* abs(z), held as its square z * conj(z).
abs(z, n) == CycMul(z, Conj(z, n), n)

NaN == [kind |-> "nan"]
NegInf == [kind |-> "-inf"]
PosInf == [kind |-> "+inf"]
Finite(sq, den) == [kind |-> "finite", sq |-> sq, den |-> den]

\* Variant: 20*log10(abs(z)/d), which is 10*log10 of the squared ratio.
Decibel_Twenty(z, n, d) ==
    LET msq == abs(z, n)
    IN IF d = 0 THEN (IF IsZero(msq) THEN NaN ELSE PosInf)
       ELSE IF IsZero(msq) THEN NegInf
       ELSE Finite(CycMul(msq, msq, n), d * d)

\* 10*log10(abs(z)/d) for a bin z of the length-n transform and a count d:
\* 0/0 is nan and m/0 is +inf (a warning, no exception), log10(0) is -inf.
Decibel(z, n, d) ==
    LET msq == abs(z, n)
    IN IF d = 0 THEN (IF IsZero(msq) THEN NaN ELSE PosInf)
       ELSE IF IsZero(msq) THEN NegInf
       ELSE Finite(msq, d)

\* Variant: the magnitudes are divided by the transform length.
find_fft_WindowNormalised(sig, n) ==
    LET f == fft(sig, n)
    IN IF f.exc # "none" THEN f
       ELSE LET sh == fftshift(f.value)
            IN [exc |-> "none",
                value |-> [k \in 1..Len(sh) |-> Decibel(sh[k], Len(sh), Len(sh))]]

find_fft(sig, n) ==
    LET f == fft(sig, n)
    IN IF f.exc # "none" THEN f
       ELSE LET sh == fftshift(f.value)
            IN [exc |-> "none",
                value |-> [k \in 1..Len(sh) |-> Decibel(sh[k], Len(sh), Len(sig))]]

----------------------------------------------------------------------------
\* The calls of find_fft.

Samples == (0 - MaxAmp)..MaxAmp
Signals == UNION {[1..l -> Samples] : l \in 0..MaxLen}
Windows == (0 - 1)..MaxWindow

NoPlot ==
    /\ x = <<>> /\ line = <<>> /\ line_omitted = FALSE
    /\ i = 0 /\ rendered = <<>> /\ shown = 0

InitFft ==
    /\ pc = "find_fft"
    /\ exc = "none"
    /\ signal \in Signals
    /\ n_window \in Windows
    /\ spectrum = <<>>
    /\ NoPlot

FindFft ==
    /\ pc = "find_fft"
    /\ LET r == find_fft(signal, n_window)
       IN /\ exc' = r.exc
          /\ spectrum' = r.value
          /\ pc' = IF r.exc = "none" THEN "returned" ELSE "raised"
    /\ UNCHANGED <<signal, n_window>>
    /\ UNCHANGED plotvars

NextFft == FindFft

SpecFft == InitFft /\ [][NextFft]_vars

----------------------------------------------------------------------------
\* Properties of find_fft (checked under SpecFft).

Called == pc # "find_fft"
L == Len(signal)

\* The second half of X followed by its first half (the first half is the longer one).
SwapHalves(X) ==
    LET n == Len(X)
        h == n \div 2
    IN SubSeq(X, n - h + 1, n) \o SubSeq(X, 1, n - h)

\* Decibel magnitudes, in natural order, of the transform of the n samples a, divided by d.
NaturalDb(a, n, d) == [k \in 1..n |-> Decibel(DftBin(a, n, k - 1), n, d)]

\* Two decibel values are the same number.
DbEq(a, b) ==
    /\ a.kind = b.kind
    /\ a.kind = "finite" => Scale(b.den * b.den, a.sq) = Scale(a.den * a.den, b.sq)

\* v + 10 * t * log10(c) dB.
PlusTensLog10(v, t, c) ==
    IF v.kind = "finite" THEN Finite(Scale(Power(c, 2 * t), v.sq), v.den) ELSE v

\* a is below b, where one of them is -inf.
DbBelow(a, b) == a.kind = "-inf" /\ b.kind \in {"finite", "+inf"}

\* C1: for a non-empty signal and a positive n_window (below, equal to or above
\* len(signal)) find_fft returns a sequence of exactly n_window elements.
C1_OutputLength ==
    (Called /\ L >= 1 /\ n_window >= 1)
        => (pc = "returned" /\ exc = "none" /\ Len(spectrum) = n_window)

C1_Witness ==
    /\ pc = "returned" /\ L = 2 /\ n_window = 4 /\ Len(spectrum) = 4

\* C2: find_fft with an empty signal and a positive n_window fails with an
\* invalid-argument error and returns no spectrum.
C2_EmptySignalRaises ==
    (Called /\ L = 0 /\ n_window >= 1)
        => (pc = "raised" /\ exc # "none" /\ spectrum = <<>>)

\* C3: find_fft with a non-empty signal and an n_window that is zero or negative
\* fails with the invalid-argument error (ValueError), passed on to the caller
\* as raised, and returns no spectrum.
C3_NonPositiveWindowRaises ==
    (Called /\ L >= 1 /\ n_window < 1)
        => (pc = "raised" /\ exc = "ValueError" /\ spectrum = <<>>)

C3_Witness ==
    /\ pc = "raised" /\ signal = <<1, 0, 1>> /\ n_window = 0 /\ exc = "ValueError"

\* C4: for a non-empty signal and a positive n_window the output is the natural-order
\* spectrum with its halves swapped, the zero-frequency bin (the magnitude of the sum
\* of the samples used) is at index n_window // 2, and for a constant non-zero signal
\* of n_window samples every other bin lies below that one.
C4_Centered ==
    (pc = "returned" /\ L >= 1 /\ n_window >= 1) =>
        LET n == n_window
            a == Resize(signal, n)
            dc == Sigma(a, n)
        IN /\ spectrum = SwapHalves(NaturalDb(a, n, L))
           /\ DbEq(spectrum[(n \div 2) + 1],
                   IF dc = 0 THEN NegInf ELSE Finite(Const(dc * dc, n), L))
           /\ (L = n /\ signal[1] # 0 /\ \A m \in 1..L : signal[m] = signal[1])
                 => \A k \in 1..n :
                       k # (n \div 2) + 1 => DbBelow(spectrum[k], spectrum[(n \div 2) + 1])

C4_Witness ==
    /\ pc = "returned" /\ signal = <<1, 1, 1, 1>> /\ n_window = 4
    /\ spectrum[3].kind = "finite"
    /\ \A k \in {1, 2, 4} : spectrum[k] = NegInf

\* C5 as stated: multiplying every sample by a positive constant c shifts every
\* finite output value by 20*log10(c) dB.
C5_ShiftTwentyLog ==
    (pc = "returned" /\ L >= 1 /\ n_window >= 1) =>
        \A c \in 1..MaxScale :
            \A scaled \in {find_fft(Scale(c, signal), n_window).value} :
                \A k \in 1..n_window :
                    spectrum[k].kind = "finite"
                        => DbEq(scaled[k], PlusTensLog10(spectrum[k], 2, c))

\* C5 amended: multiplying every sample by a positive constant c shifts every
\* finite output value by 10*log10(c) dB (and leaves -inf values at -inf).
C5_ShiftTenLog ==
    (pc = "returned" /\ L >= 1 /\ n_window >= 1) =>
        \A c \in 1..MaxScale :
            \A scaled \in {find_fft(Scale(c, signal), n_window).value} :
                /\ Len(scaled) = n_window
                /\ \A k \in 1..n_window :
                      \A v \in {scaled[k]} : DbEq(v, PlusTensLog10(spectrum[k], 1, c))

C5_Witness ==
    /\ pc = "returned" /\ signal = <<1, 1>> /\ n_window = 3
    /\ \A k \in 1..3 : spectrum[k].kind = "finite"
    /\ find_fft(Scale(2, signal), n_window).value # spectrum

\* C6: for n_window above len(signal) the output equals, bin for bin, the centred
\* decibel magnitude of the n_window-point transform of the signal with
\* n_window - len(signal) zeros appended, each magnitude divided by len(signal).
C6_ZeroPadded ==
    (pc = "returned" /\ L >= 1 /\ n_window > L) =>
        spectrum = SwapHalves(NaturalDb(signal \o Zeros(n_window - L), n_window, L))

C6_Witness ==
    /\ pc = "returned" /\ signal = <<1, 1>> /\ n_window = 4
    /\ spectrum[3] = Finite(Const(4, 4), 2)

\* C7: for a positive n_window below len(signal) only the first n_window samples
\* count: every signal of the same length that agrees with this one on its first
\* n_window samples gives the same output, and the output is the centred spectrum
\* of those first samples with the magnitudes divided by the full len(signal).
C7_Truncated ==
    (pc = "returned" /\ n_window >= 1 /\ n_window < L) =>
        LET head == SubSeq(signal, 1, n_window)
        IN /\ \A tail \in [1..(L - n_window) -> Samples] :
                 find_fft(head \o tail, n_window).value = spectrum
           /\ spectrum = SwapHalves(NaturalDb(head, n_window, L))

C7_Witness ==
    /\ pc = "returned" /\ signal = <<1, 1, 0, -1>> /\ n_window = 2
    /\ spectrum[2] = Finite(Const(4, 2), 4)

\* C8: for signal = [1, -1, 1, -1] and n_window = 4 find_fft returns four values,
\* 0 dB at index 0 and -inf at the other three; a bin of magnitude zero gives -inf
\* in the output of any call with a non-empty signal, and no error.
C8_Alternating ==
    /\ (Called /\ signal = <<1, -1, 1, -1>> /\ n_window = 4) =>
          /\ pc = "returned" /\ exc = "none" /\ Len(spectrum) = 4
          /\ DbEq(spectrum[1], Finite(Const(1, 4), 1))
          /\ \A k \in 2..4 : spectrum[k] = NegInf
    /\ (Called /\ L >= 1 /\ n_window >= 1) =>
          /\ pc = "returned"
          /\ \A bins \in {SwapHalves(Dft(Resize(signal, n_window), n_window))} :
                \A k \in 1..n_window : IsZero(bins[k]) => spectrum[k] = NegInf

C8_Witness ==
    /\ pc = "returned" /\ signal = <<1, -1, 1, -1>> /\ n_window = 4
    /\ spectrum[1].kind = "finite"
    /\ spectrum[2] = NegInf

----------------------------------------------------------------------------
\* plot_timeseries(title, x, y, line=['continuous']).  x holds the indices of
\* the series (y has one entry per entry of x); a tag "other" stands for any
\* string that is none of the three the loop compares with.

Tags == {"continuous", "discrete", "dash", "other"}
DefaultLine == <<"continuous">>
SeriesLists == {[j \in 1..k |-> j - 1] : k \in 0..MaxSeries}
LineLists == UNION {[1..l -> Tags] : l \in 0..MaxSeries}

NoFft == signal = <<>> /\ n_window = 0 /\ spectrum = <<>>

InitPlot ==
    /\ pc = "setup"
    /\ exc = "none"
    /\ x \in SeriesLists
    /\ line_omitted \in BOOLEAN
    /\ line \in (IF line_omitted THEN {DefaultLine} ELSE LineLists)
    /\ i = 0
    /\ rendered = <<>>
    /\ shown = 0
    /\ NoFft

\* Lines 21-27: the figure, the axis labels, the grid, the limits and the title.
Setup ==
    /\ pc = "setup"
    /\ pc' = "loop"
    /\ i' = 0
    /\ UNCHANGED <<exc, x, line, line_omitted, rendered, shown>>
    /\ UNCHANGED fftvars

Render(call) ==
    /\ rendered' = Append(rendered, [call |-> call, series |-> x[i + 1]])
    /\ i' = i + 1
    /\ UNCHANGED <<pc, exc, x, line, line_omitted, shown>>
    /\ UNCHANGED fftvars

InLoop == pc = "loop" /\ i < Len(x)

\* line[i] past the end of line.
LineIndexError ==
    /\ InLoop
    /\ i >= Len(line)
    /\ pc' = "raised"
    /\ exc' = "IndexError"
    /\ UNCHANGED <<x, line, line_omitted, i, rendered, shown>>
    /\ UNCHANGED fftvars

PlotContinuous == InLoop /\ i < Len(line) /\ line[i + 1] = "continuous" /\ Render("plot")

PlotDiscrete == InLoop /\ i < Len(line) /\ line[i + 1] = "discrete" /\ Render("stem")

\* Variant: the dashed series is drawn as a solid line.
PlotDash_Solid == InLoop /\ i < Len(line) /\ line[i + 1] = "dash" /\ Render("plot")

PlotDash == InLoop /\ i < Len(line) /\ line[i + 1] = "dash" /\ Render("plot_dashed")

\* No branch of the if/elif chain matches.
PlotNothing ==
    /\ InLoop
    /\ i < Len(line)
    /\ line[i + 1] \notin {"continuous", "discrete", "dash"}
    /\ i' = i + 1
    /\ UNCHANGED <<pc, exc, x, line, line_omitted, rendered, shown>>
    /\ UNCHANGED fftvars

\* The loop is exhausted: plt.show().
Show ==
    /\ pc = "loop"
    /\ i = Len(x)
    /\ shown' = shown + 1
    /\ pc' = "returned"
    /\ UNCHANGED <<exc, x, line, line_omitted, i, rendered>>
    /\ UNCHANGED fftvars

NextPlot ==
    \/ Setup
    \/ LineIndexError
    \/ PlotContinuous
    \/ PlotDiscrete
    \/ PlotDash
    \/ PlotNothing
    \/ Show

SpecPlot == InitPlot /\ [][NextPlot]_vars

----------------------------------------------------------------------------
\* Properties of plot_timeseries (checked under SpecPlot).

CallOf(tag) ==
    IF tag = "continuous" THEN "plot" ELSE IF tag = "discrete" THEN "stem" ELSE "plot_dashed"

\* The render calls for the first m series: one for each known tag, in series order.
RECURSIVE Calls(_)
Calls(m) ==
    IF m = 0 THEN <<>>
    ELSE Calls(m - 1) \o
         (IF line[m] \in {"continuous", "discrete", "dash"}
          THEN <<[call |-> CallOf(line[m]), series |-> x[m]]>>
          ELSE <<>>)

\* C9: with the line argument omitted, plot_timeseries with any number k >= 1 of
\* series completes without error and draws every series as a solid line.
C9_DefaultStyleAnyCount ==
    (line_omitted /\ Len(x) >= 1 /\ pc \in {"returned", "raised"}) =>
        /\ pc = "returned"
        /\ exc = "none"
        /\ rendered = [j \in 1..Len(x) |-> [call |-> "plot", series |-> x[j]]]

\* C10: with k series and at least k style tags, the render calls made so far are
\* those of the series handled so far, in series order, one per series with a tag
\* among continuous, discrete, dash (plot, stem, dashed plot) and none for any
\* other tag; no error is raised; the figure is shown exactly once, after the
\* last series.
C10_RenderOrder ==
    Len(line) >= Len(x) =>
        /\ pc # "raised"
        /\ exc = "none"
        /\ i <= Len(x)
        /\ rendered = Calls(i)
        /\ shown = (IF pc = "returned" THEN 1 ELSE 0)
        /\ pc = "returned" => i = Len(x)

C10_Witness ==
    /\ pc = "returned"
    /\ Len(x) = 3
    /\ line = <<"dash", "other", "discrete">>
    /\ rendered = <<[call |-> "plot_dashed", series |-> 0], [call |-> "stem", series |-> 2]>>
    /\ shown = 1

====
